---- MODULE Spec2Model ----
(***************************************************************************)
(* handleRequest / fetchData / setupCounter of                             *)
(* presentations/expected-errors/vite-axios/src/counter.ts                 *)
(*                                                                         *)
(* Every handleRequest invocation is one element of Calls.  A call is      *)
(* started (apiCall() is invoked and the async function suspends at the    *)
(* await), its operation settles (the environment: the server answers, the *)
(* network fails, the request is aborted, the operation throws), and the   *)
(* continuation of handleRequest then runs: the try branch returns the     *)
(* payload, the catch branch classifies the failure.  JavaScript runs a    *)
(* continuation to completion, so while one call is between                *)
(* Sentry.captureException and its return no other call takes a step.      *)
(***************************************************************************)
EXTENDS Integers, Sequences, FiniteSets, TLC

\* Number of handleRequest invocations followed (numbered in the order in
\* which they are started).
NumCalls == 2

Calls == 1..NumCalls

\* error.response?.status of a failure that has no response, or no status
Undefined == -1

\* The fixed message of both unexpectedError returns
UnexpectedMessage == "An unexpected error occurred"

\* Response payloads (response.data) the operation may resolve with
Payloads == {"ok", "hello"}

\* Status codes a failure of a directly passed operation may carry
FailureStatuses == {0, 404}

\* Values thrown by the operation.  kind is the class of the thrown value:
\* AxiosError, CanceledError (a subclass of AxiosError, thrown when the request
\* is aborted; it has no response) or a plain Error that is no AxiosError but
\* may still have a status-like field.
AxiosFailures == [kind : {"AxiosError"}, status : FailureStatuses \cup {Undefined}]
CancelFailures == [kind : {"CanceledError"}, status : {Undefined}]
OtherFailures == [kind : {"Error"}, status : {404}]
Failures == AxiosFailures \cup CancelFailures \cup OtherFailures

\* What Sentry.captureException throws when the sink itself fails
SinkFailure == [kind |-> "SinkError", status |-> Undefined]

\* The expectedErrors argument: omitted, or a Map<number, string>
NoMap == [supplied |-> FALSE, entries |-> <<>>]
MapOf(entries) == [supplied |-> TRUE, entries |-> entries]

\* new Map([[403, "Not authorized"], [404, "Not Found"]]) of fetchData
FetchDataExpectedErrorsNo404 == MapOf(403 :> "Not authorized")
FetchDataExpectedErrors == MapOf((403 :> "Not authorized") @@ (404 :> "Not Found"))

\* The maps a direct caller of handleRequest passes
DirectMaps ==
  { NoMap,
    MapOf(0 :> ""),
    MapOf((0 :> "Zero") @@ (404 :> "Gone")) }

\* Arguments of fetchData (the status the mock endpoint is asked for) in calls
\* other than the click listener's fetchData(422)
FetchStatuses == {200, 404}

VARIABLES
  pc,              \* pc[c]: "idle", "awaiting", "settled", "captured", "done", "rejected"
  request,         \* request[c]: who started the call and the status asked for
  expectedErrors,  \* expectedErrors[c]: the call's expectedErrors argument
  result,          \* result[c]: how the call's operation settled
  outcome,         \* outcome[c]: the value handleRequest's promise resolved with
  thrown,          \* thrown[c]: the value handleRequest's promise rejected with
  invocations,     \* invocations[c]: number of times apiCall() was invoked
  sentryLog,       \* the Sentry.captureException calls, in order
  counter,         \* setupCounter's counter
  innerHTML        \* the button's text

vars == <<pc, request, expectedErrors, result, outcome, thrown, invocations,
          sentryLog, counter, innerHTML>>

NoRequest == [via |-> "none", url |-> Undefined]
Pending == [kind |-> "pending"]
NoOutcome == [status |-> "none"]
NoThrow == [kind |-> "none", status |-> Undefined]

Init ==
  /\ pc = [c \in Calls |-> "idle"]
  /\ request = [c \in Calls |-> NoRequest]
  /\ expectedErrors = [c \in Calls |-> NoMap]
  /\ result = [c \in Calls |-> Pending]
  /\ outcome = [c \in Calls |-> NoOutcome]
  /\ thrown = [c \in Calls |-> NoThrow]
  /\ invocations = [c \in Calls |-> 0]
  /\ sentryLog = <<>>
  /\ counter = 0
  /\ innerHTML = <<"count is", 0>>

\* error instanceof AxiosError
IsAxiosError(error) == error.kind \in {"AxiosError", "CanceledError"}

\* error.response?.status
ResponseStatus(error) == error.status

\* expectedErrors?.has(key): false when no map was passed; Map.prototype.has
\* compares with SameValueZero, so undefined equals no number, 0 included
MapHasFalsy(map, key) ==
  map.supplied /\ (IF key = Undefined THEN 0 ELSE key) \in DOMAIN map.entries
MapHas(map, key) == map.supplied /\ key \in DOMAIN map.entries

\* expectedErrors.get(key): undefined for a key the map does not hold
MapGet(map, key) ==
  IF key \in DOMAIN map.entries THEN map.entries[key] ELSE "undefined"

\* One call of Sentry.captureException(error): who called, with what, and
\* whether the sink threw
LogEntry(c, threw) == [call |-> c, error |-> result[c], threw |-> threw]

\* JavaScript runs a continuation to completion: nothing else runs while a
\* call is between Sentry.captureException and its return statement
NoneRunning == \A c \in Calls : pc[c] # "captured"

\* handleRequest up to its await: apiCall() is invoked once and the function
\* suspends.  Calls are numbered in the order they are started.
Begin(c, req, map) ==
  /\ NoneRunning
  /\ pc[c] = "idle"
  /\ \A d \in Calls : d < c => pc[d] # "idle"
  /\ pc' = [pc EXCEPT ![c] = "awaiting"]
  /\ request' = [request EXCEPT ![c] = req]
  /\ expectedErrors' = [expectedErrors EXCEPT ![c] = map]
  /\ invocations' = [invocations EXCEPT ![c] = @ + 1]
  /\ UNCHANGED <<result, outcome, thrown, sentryLog>>

\* A caller other than fetchData calls handleRequest with any operation
HandleRequest(c) ==
  /\ \E map \in DirectMaps : Begin(c, [via |-> "direct", url |-> Undefined], map)
  /\ UNCHANGED <<counter, innerHTML>>

\* fetchData(status)
FetchData(c) ==
  /\ \E status \in FetchStatuses :
       Begin(c, [via |-> "fetchData", url |-> status], FetchDataExpectedErrors)
  /\ UNCHANGED <<counter, innerHTML>>

\* The click listener of setupCounter: setCounter(counter + 1)
Click(c) ==
  /\ Begin(c, [via |-> "click", url |-> 422], FetchDataExpectedErrors)
  /\ counter' = counter + 1
  /\ innerHTML' = <<"count is", counter + 1>>

\* axios.get resolves for a 2xx answer (the default validateStatus); an
\* operation passed directly may resolve with any payload
CanResolve(req) == req.via = "direct" \/ (req.url >= 200 /\ req.url < 300)

\* The failures the operation of a call can reject with.  axios.get rejects
\* with an AxiosError carrying the answer's status when it is not 2xx and with
\* an AxiosError without response when the network fails; fetchData passes no
\* abort signal, so its request is never cancelled.
PossibleFailures(req) ==
  IF req.via = "direct" THEN Failures
  ELSE { [kind |-> "AxiosError", status |-> Undefined] }
       \cup (IF CanResolve(req) THEN {}
             ELSE { [kind |-> "AxiosError", status |-> req.url] })

\* The operation resolves with a response
ApiCallResolves(c) ==
  /\ NoneRunning
  /\ pc[c] = "awaiting"
  /\ CanResolve(request[c])
  /\ \E data \in Payloads :
       result' = [result EXCEPT ![c] = [kind |-> "response", data |-> data]]
  /\ pc' = [pc EXCEPT ![c] = "settled"]
  /\ UNCHANGED <<request, expectedErrors, outcome, thrown, invocations,
                 sentryLog, counter, innerHTML>>

\* The operation rejects
ApiCallRejects(c) ==
  /\ NoneRunning
  /\ pc[c] = "awaiting"
  /\ \E error \in PossibleFailures(request[c]) :
       result' = [result EXCEPT ![c] = error]
  /\ pc' = [pc EXCEPT ![c] = "settled"]
  /\ UNCHANGED <<request, expectedErrors, outcome, thrown, invocations,
                 sentryLog, counter, innerHTML>>

\* try branch: return { status: "success", data: response.data }
ReturnSuccessWrongField(c) ==
  /\ NoneRunning
  /\ pc[c] = "settled"
  /\ result[c].kind = "response"
  /\ outcome' = [outcome EXCEPT ![c] = [status |-> "success", data |-> "undefined"]]
  /\ pc' = [pc EXCEPT ![c] = "done"]
  /\ UNCHANGED <<request, expectedErrors, result, thrown, invocations,
                 sentryLog, counter, innerHTML>>
ReturnSuccess(c) ==
  /\ NoneRunning
  /\ pc[c] = "settled"
  /\ result[c].kind = "response"
  /\ outcome' = [outcome EXCEPT ![c] = [status |-> "success", data |-> result[c].data]]
  /\ pc' = [pc EXCEPT ![c] = "done"]
  /\ UNCHANGED <<request, expectedErrors, result, thrown, invocations,
                 sentryLog, counter, innerHTML>>

\* catch branch, error is an AxiosError whose status is a key of the map:
\* return { status: "expectedError", error: expectedErrors.get(status) }
ReturnExpectedAndCapture(c) ==
  /\ NoneRunning
  /\ pc[c] = "settled"
  /\ result[c].kind # "response"
  /\ IsAxiosError(result[c])
  /\ MapHas(expectedErrors[c], ResponseStatus(result[c]))
  /\ sentryLog' = Append(sentryLog, LogEntry(c, FALSE))
  /\ outcome' = [outcome EXCEPT ![c] =
       [status |-> "expectedError",
        error |-> MapGet(expectedErrors[c], ResponseStatus(result[c]))]]
  /\ pc' = [pc EXCEPT ![c] = "done"]
  /\ UNCHANGED <<request, expectedErrors, result, thrown, invocations,
                 counter, innerHTML>>
ReturnExpected(c) ==
  /\ NoneRunning
  /\ pc[c] = "settled"
  /\ result[c].kind # "response"
  /\ IsAxiosError(result[c])
  /\ MapHas(expectedErrors[c], ResponseStatus(result[c]))
  /\ outcome' = [outcome EXCEPT ![c] =
       [status |-> "expectedError",
        error |-> MapGet(expectedErrors[c], ResponseStatus(result[c]))]]
  /\ pc' = [pc EXCEPT ![c] = "done"]
  /\ UNCHANGED <<request, expectedErrors, result, thrown, invocations,
                 sentryLog, counter, innerHTML>>

\* catch branch, error is an AxiosError whose status is no key of the map (or
\* there is no map): Sentry.captureException(error)
CaptureAxiosSkipped(c) ==
  /\ NoneRunning
  /\ pc[c] = "settled"
  /\ result[c].kind # "response"
  /\ IsAxiosError(result[c])
  /\ ~MapHas(expectedErrors[c], ResponseStatus(result[c]))
  /\ pc' = [pc EXCEPT ![c] = "captured"]
  /\ UNCHANGED <<request, expectedErrors, result, outcome, thrown, invocations,
                 sentryLog, counter, innerHTML>>
CaptureAxiosRetry(c) ==
  /\ NoneRunning
  /\ pc[c] = "settled"
  /\ result[c].kind # "response"
  /\ IsAxiosError(result[c])
  /\ ~MapHas(expectedErrors[c], ResponseStatus(result[c]))
  /\ IF invocations[c] < 2
       THEN /\ invocations' = [invocations EXCEPT ![c] = @ + 1]
            /\ result' = [result EXCEPT ![c] = Pending]
            /\ pc' = [pc EXCEPT ![c] = "awaiting"]
            /\ UNCHANGED sentryLog
       ELSE /\ sentryLog' = Append(sentryLog, LogEntry(c, FALSE))
            /\ pc' = [pc EXCEPT ![c] = "captured"]
            /\ UNCHANGED <<invocations, result>>
  /\ UNCHANGED <<request, expectedErrors, outcome, thrown, counter, innerHTML>>
CaptureAxios(c) ==
  /\ NoneRunning
  /\ pc[c] = "settled"
  /\ result[c].kind # "response"
  /\ IsAxiosError(result[c])
  /\ ~MapHas(expectedErrors[c], ResponseStatus(result[c]))
  /\ sentryLog' = Append(sentryLog, LogEntry(c, FALSE))
  /\ pc' = [pc EXCEPT ![c] = "captured"]
  /\ UNCHANGED <<request, expectedErrors, result, outcome, thrown, invocations,
                 counter, innerHTML>>

\* catch branch, error is no AxiosError: Sentry.captureException(error)
RethrowOther(c) ==
  /\ NoneRunning
  /\ pc[c] = "settled"
  /\ result[c].kind # "response"
  /\ ~IsAxiosError(result[c])
  /\ thrown' = [thrown EXCEPT ![c] = result[c]]
  /\ pc' = [pc EXCEPT ![c] = "rejected"]
  /\ UNCHANGED <<request, expectedErrors, result, outcome, invocations,
                 sentryLog, counter, innerHTML>>
CaptureOtherTwice(c) ==
  /\ NoneRunning
  /\ pc[c] = "settled"
  /\ result[c].kind # "response"
  /\ ~IsAxiosError(result[c])
  /\ sentryLog' = sentryLog \o <<LogEntry(c, FALSE), LogEntry(c, FALSE)>>
  /\ pc' = [pc EXCEPT ![c] = "captured"]
  /\ UNCHANGED <<request, expectedErrors, result, outcome, thrown, invocations,
                 counter, innerHTML>>
CaptureOtherAfterReturn(c) ==
  /\ NoneRunning
  /\ pc[c] = "settled"
  /\ result[c].kind # "response"
  /\ ~IsAxiosError(result[c])
  /\ outcome' = [outcome EXCEPT ![c] =
       [status |-> "unexpectedError", error |-> UnexpectedMessage]]
  /\ sentryLog' = Append(sentryLog, LogEntry(c, FALSE))
  /\ pc' = [pc EXCEPT ![c] = "done"]
  /\ UNCHANGED <<request, expectedErrors, result, thrown, invocations,
                 counter, innerHTML>>
CaptureOther(c) ==
  /\ NoneRunning
  /\ pc[c] = "settled"
  /\ result[c].kind # "response"
  /\ ~IsAxiosError(result[c])
  /\ sentryLog' = Append(sentryLog, LogEntry(c, FALSE))
  /\ pc' = [pc EXCEPT ![c] = "captured"]
  /\ UNCHANGED <<request, expectedErrors, result, outcome, thrown, invocations,
                 counter, innerHTML>>

\* return { status: "unexpectedError", error: "An unexpected error occurred" }
\* (the statement after either Sentry.captureException)
ReturnUnexpected(c) ==
  /\ pc[c] = "captured"
  /\ outcome' = [outcome EXCEPT ![c] =
       [status |-> "unexpectedError", error |-> UnexpectedMessage]]
  /\ pc' = [pc EXCEPT ![c] = "done"]
  /\ UNCHANGED <<request, expectedErrors, result, thrown, invocations,
                 sentryLog, counter, innerHTML>>

\* Sentry.captureException itself throws.  The call stands in the catch block,
\* outside any try, so the exception leaves handleRequest: its promise rejects.
CaptureExceptionThrows(c) ==
  /\ NoneRunning
  /\ pc[c] = "settled"
  /\ result[c].kind # "response"
  /\ ~(IsAxiosError(result[c]) /\ MapHas(expectedErrors[c], ResponseStatus(result[c])))
  /\ sentryLog' = Append(sentryLog, LogEntry(c, TRUE))
  /\ thrown' = [thrown EXCEPT ![c] = SinkFailure]
  /\ pc' = [pc EXCEPT ![c] = "rejected"]
  /\ UNCHANGED <<request, expectedErrors, result, outcome, invocations,
                 counter, innerHTML>>

\* The continuation of handleRequest after the await
Resume(c) ==
  \/ ReturnSuccess(c)
  \/ ReturnExpected(c)
  \/ CaptureAxios(c)
  \/ CaptureOther(c)
  \/ ReturnUnexpected(c)

Next ==
  \E c \in Calls :
    \/ HandleRequest(c)
    \/ FetchData(c)
    \/ Click(c)
    \/ ApiCallResolves(c)
    \/ ApiCallRejects(c)
    \/ Resume(c)

\* The program with the sink of the source, a console.error that returns
Spec == Init /\ [][Next]_vars

\* The event loop runs every continuation that is ready
LiveSpec == Spec /\ \A c \in Calls : WF_vars(Resume(c))

\* The program with a sink that may fail
NextFaultySink == Next \/ \E c \in Calls : CaptureExceptionThrows(c)
SpecFaultySink == Init /\ [][NextFaultySink]_vars

(***************************************************************************)
(* Vocabulary of the properties                                            *)
(***************************************************************************)

\* The errors call c handed to Sentry.captureException, in order
RECURSIVE CapturedIn(_, _)
CapturedIn(log, c) ==
  IF log = <<>> THEN <<>>
  ELSE IF Head(log).call = c
         THEN <<Head(log).error>> \o CapturedIn(Tail(log), c)
         ELSE CapturedIn(Tail(log), c)
CapturedBy(c) == CapturedIn(sentryLog, c)

RECURSIVE TotalInvocations(_)
TotalInvocations(n) == IF n = 0 THEN 0 ELSE invocations[n] + TotalInvocations(n - 1)

Settled(c) == result[c] # Pending
Failed(c) == Settled(c) /\ result[c].kind # "response"
Returned(c) == outcome[c] # NoOutcome
TransportFailed(c) == Failed(c) /\ result[c].kind \in {"AxiosError", "CanceledError"}
CarriesStatus(c) == Failed(c) /\ result[c].status # Undefined
StatusIsKey(c) ==
  /\ CarriesStatus(c)
  /\ expectedErrors[c].supplied
  /\ result[c].status \in DOMAIN expectedErrors[c].entries
Unexpected == [status |-> "unexpectedError", error |-> "An unexpected error occurred"]
ViaFetchData(c, status) ==
  /\ request[c].via \in {"fetchData", "click"}
  /\ request[c].url = status
  /\ result[c] = [kind |-> "AxiosError", status |-> status]

\* C1: handleRequest never rejects; a call that has completed has completed
\* with exactly one Outcome, whose discriminant is success, expectedError or
\* unexpectedError, however the operation settled and whatever map was
\* passed; a cancelled operation gives unexpectedError.
C1_NeverPropagates ==
  \A c \in Calls :
    /\ pc[c] # "rejected"
    /\ thrown[c] = NoThrow
    /\ (pc[c] = "done") = Returned(c)
    /\ Returned(c) =>
         /\ outcome[c].status \in {"success", "expectedError", "unexpectedError"}
         /\ (outcome[c].status = "success") = (result[c].kind = "response")
         /\ result[c].kind = "CanceledError" => outcome[c] = Unexpected
C1_Witness ==
  \E c \in Calls : pc[c] = "done" /\ result[c].kind = "CanceledError"
                   /\ outcome[c] = Unexpected

\* C2: when Sentry.captureException itself fails, handleRequest does not
\* reject: the call goes on to return the unexpectedError outcome.
C2_SinkFailureAbsorbed ==
  \A i \in DOMAIN sentryLog :
    sentryLog[i].threw =>
      /\ pc[sentryLog[i].call] \in {"captured", "done"}
      /\ thrown[sentryLog[i].call] = NoThrow
      /\ pc[sentryLog[i].call] = "done" => outcome[sentryLog[i].call] = Unexpected

C5_ExpectedOnlyForTransportStatus ==
  \A c \in Calls :
    /\ (Returned(c) /\ outcome[c].status = "expectedError") =>
         (TransportFailed(c) /\ StatusIsKey(c))
    /\ (pc[c] = "done" /\ Failed(c) /\ (~TransportFailed(c) \/ ~CarriesStatus(c))) =>
         (outcome[c] = Unexpected /\ CapturedBy(c) = <<result[c]>>)
C5_Witness ==
  \E c, d \in Calls :
    /\ pc[c] = "done" /\ pc[d] = "done"
    /\ result[c] = [kind |-> "AxiosError", status |-> Undefined]
    /\ expectedErrors[c].supplied /\ 0 \in DOMAIN expectedErrors[c].entries
    /\ result[d] = [kind |-> "Error", status |-> 404]
    /\ expectedErrors[d].supplied /\ 404 \in DOMAIN expectedErrors[d].entries
    /\ outcome[c] = Unexpected /\ outcome[d] = Unexpected

\* C6: an operation that resolves with payload P gives success with data P
\* and no call of Sentry.captureException, whatever map was passed.
C6_SuccessCarriesPayload ==
  \A c \in Calls :
    (Settled(c) /\ result[c].kind = "response") =>
      /\ CapturedBy(c) = <<>>
      /\ pc[c] = "done" => outcome[c] = [status |-> "success", data |-> result[c].data]
C6_Witness ==
  \E c \in Calls :
    /\ pc[c] = "done" /\ expectedErrors[c].supplied
    /\ result[c] = [kind |-> "response", data |-> "hello"]
    /\ outcome[c] = [status |-> "success", data |-> "hello"]

C8_InvokedOnce ==
  /\ \A c \in Calls : invocations[c] = IF pc[c] = "idle" THEN 0 ELSE 1
  /\ TotalInvocations(NumCalls) = Cardinality({c \in Calls : pc[c] # "idle"})
C8_Witness ==
  /\ \A c \in Calls : pc[c] = "done"
  /\ \E c, d \in Calls : /\ outcome[c].status = "expectedError"
                         /\ outcome[d].status = "unexpectedError"
  /\ TotalInvocations(NumCalls) = NumCalls

\* C9: no Outcome before the operation has settled; Sentry.captureException
\* is called after the operation failed and before the unexpectedError Outcome
\* is returned; once the operation has settled, an Outcome is eventually
\* returned.
C9_Ordering ==
  /\ [](\A c \in Calls :
          /\ Returned(c) => Settled(c)
          /\ CapturedBy(c) # <<>> => Failed(c)
          /\ (Returned(c) /\ outcome[c].status = "unexpectedError") =>
               CapturedBy(c) = <<result[c]>>)
  /\ [][\A c \in Calls :
          Len(CapturedIn(sentryLog', c)) > Len(CapturedBy(c)) =>
            (~Returned(c) /\ outcome'[c] = NoOutcome)]_vars
  /\ <>[](\A c \in Calls : Settled(c) => Returned(c))
C9_Witness ==
  \E c \in Calls : pc[c] = "captured" /\ CapturedBy(c) = <<result[c]>> /\ ~Returned(c)

\* What the map and the operation's result of one call determine
OutcomeFor(map, res) ==
  IF res.kind = "response" THEN [status |-> "success", data |-> res.data]
  ELSE IF /\ res.kind \in {"AxiosError", "CanceledError"}
          /\ res.status # Undefined
          /\ map.supplied
          /\ res.status \in DOMAIN map.entries
    THEN [status |-> "expectedError", error |-> map.entries[res.status]]
    ELSE Unexpected

\* C10: with several calls in flight, settling in any order, each call's
\* Outcome is determined by its own result and its own map, and the number of
\* Sentry.captureException calls equals the number of calls that took the
\* unexpected path.
C10_Independent ==
  /\ \A c \in Calls :
       /\ Returned(c) => outcome[c] = OutcomeFor(expectedErrors[c], result[c])
       /\ Len(CapturedBy(c)) =
            IF pc[c] = "captured" \/ (Returned(c) /\ outcome[c].status = "unexpectedError")
              THEN 1 ELSE 0
  /\ Len(sentryLog) =
       Cardinality({c \in Calls :
         pc[c] = "captured" \/ (Returned(c) /\ outcome[c].status = "unexpectedError")})
C10_Witness ==
  /\ Len(sentryLog) = 2
  /\ sentryLog[1].call > sentryLog[2].call
  /\ \E c \in Calls : pc[c] = "done" /\ outcome[c].status = "unexpectedError"
  /\ \E c, d \in Calls : c < d /\ pc[d] = "done" /\ pc[c] \in {"awaiting", "captured", "done"}

====
